---- MODULE Spec2Model ----
(***************************************************************************)
(* A model of spotify.py: the OAuth token refresh, the authorized API call *)
(* with its retry on 401, playlist creation, adding tracks to a playlist    *)
(* and the extraction of track ids from a chat message.                    *)
(*                                                                         *)
(* Texts are modelled as sequences of pieces: a piece is one character or  *)
(* one fixed literal of the source (an URL prefix, "spotify:track:").      *)
(***************************************************************************)
EXTENDS Integers, Sequences, FiniteSets, TLC

\* ------------------------------------------------------------- bounds
MaxIssued == 2      \* access tokens the provider issues in one run
MaxPlaylists == 1   \* playlists the provider creates in one run
MaxTracks == 3      \* longest track_ids list given to add_tracks_to_playlist
MaxMsgLen == 4      \* longest message, in pieces

Users == {"u1", "u2"}
Procs == {1, 2}
TrackIdSet == {"a", "b"}

\* ---------------------------------------------------- program constants
SPOTIFY_AUTH_BASE_URL == "https://accounts.spotify.com"
SPOTIFY_TOKEN_URL == <<SPOTIFY_AUTH_BASE_URL, "/api/token">>
SPOTIFY_API_URL == "https://api.spotify.com/v1"
TRACK_URL_PREFIX == "https://open.spotify.com/track/"
TRACK_URI_PREFIX == "spotify:track:"

VARIABLES
  store,         \* the users table: user id -> stored row
  playlists,     \* the playlists table: a set of rows
  issued,        \* how many access tokens the provider has issued
  lastCommitter, \* user id -> the process whose refresh committed last (0: none)
  pc,            \* process -> its position in the operation it runs
  op,            \* process -> the operation and its arguments
  obj,           \* process -> its in-memory User object
  reqs,          \* process -> the API requests issued by the running operation
  resps,         \* process -> the provider's answers to them
  rresp,         \* process -> the answers of the token endpoint (refresh)
  writes,        \* process -> the commits of the running operation
  outcome,       \* process -> how the operation ended
  pre,           \* process -> the two tables when the operation started
  message,       \* the chat message given to get_track_ids_from_message
  track_ids,     \* its result
  extracted      \* whether track_ids is the result for message

vars == <<store, playlists, issued, lastCommitter, pc, op, obj, reqs, resps,
          rresp, writes, outcome, pre, message, track_ids, extracted>>

dbVars == <<store, playlists, issued, lastCommitter>>
procVars == <<pc, op, obj, reqs, resps, rresp, writes, outcome, pre>>
textVars == <<message, track_ids, extracted>>

\* ------------------------------------------------------------- values
AccessTok(n) == <<"access", n>>
RefreshTok(n) == <<"refresh", n>>
NoValue == [none |-> TRUE]
NoOutcome == [kind |-> "none"]
Returned(v) == [kind |-> "returned", value |-> v]
Raised(e) == [kind |-> "raised", error |-> e]

UserIndex(u) == IF u = "u1" THEN 1 ELSE 2

\* An in-memory User object: its attributes and the row they were loaded from.
Load(row) == [cur |-> row, loaded |-> row]
\* user.<f> = v
Assign(o, f, v) == [o EXCEPT !.cur[f] = v]

\* User.auth_header: the bearer header built from the object's access_token.
auth_header(o) == [Authorization |-> <<"Bearer ", o.cur.access_token>>]

\* json.loads: a text that is no JSON raises, any other gives its object.
json_loads(body) ==
  IF body.kind = "garbage"
    THEN [ok |-> FALSE, error |-> "JSONDecodeError"]
    ELSE [ok |-> TRUE, value |-> body]

\* The keys of a parsed JSON object, by the kind of answer it is.
Keys(v) ==
  CASE v.kind = "tokens" ->
         {"access_token"} \cup (IF v.refresh_token = <<>> THEN {} ELSE {"refresh_token"})
    [] v.kind = "playlist" -> {"id", "external_urls", "href", "owner"}
    [] v.kind = "partial" -> {"id", "external_urls", "href"}
    [] v.kind = "object" -> {"snapshot_id"}
    [] OTHER -> {"error"}

\* ------------------------------------------------------ the provider
ApiStatuses == {200, 401, 500}
TokenStatuses == {200, 400}

PlainBodies == {[kind |-> "error"], [kind |-> "object"], [kind |-> "garbage"]}

\* The body the provider gives for a created playlist: a fresh id, the
\* playlist's href and the id of the user of the endpoint as owner.
\* A "partial" body has the id, the url and the href but no owner.
PlaylistBodies(o) ==
  IF o.name = "create" /\ Cardinality(playlists) < MaxPlaylists
    THEN {[kind |-> k, id |-> Cardinality(playlists) + 1,
           url |-> <<"https://open.spotify.com/playlist/", Cardinality(playlists) + 1>>,
           href |-> <<SPOTIFY_API_URL, "/playlists/", Cardinality(playlists) + 1>>,
           owner |-> o.user] : k \in {"playlist", "partial"}}
    ELSE {}

ApiResponses(o) ==
  {[status |-> s, body |-> b] : s \in ApiStatuses, b \in PlainBodies \cup PlaylistBodies(o)}

\* The answers of the token endpoint: a new access token, with or without a
\* new refresh token, or a body without one; each under any status.
TokenBodies ==
  {[kind |-> "error"], [kind |-> "garbage"]}
  \cup (IF issued < MaxIssued
          THEN {[kind |-> "tokens", access_token |-> AccessTok(issued + 3),
                 refresh_token |-> rt] : rt \in {<<>>, <<RefreshTok(issued + 3)>>}}
          ELSE {})

TokenResponses == {[status |-> s, body |-> b] : s \in TokenStatuses, b \in TokenBodies}

\* ------------------------------------------------------------- Init
Init ==
  /\ store = [u \in Users |->
                [access_token |-> AccessTok(UserIndex(u)),
                 refresh_token |-> RefreshTok(UserIndex(u)),
                 active_playlist_id |-> 0]]
  /\ playlists = {}
  /\ issued = 0
  /\ lastCommitter = [u \in Users |-> 0]
  /\ pc = [p \in Procs |-> "idle"]
  /\ op = [p \in Procs |-> [name |-> "none"]]
  /\ obj = [p \in Procs |-> NoValue]
  /\ reqs = [p \in Procs |-> <<>>]
  /\ resps = [p \in Procs |-> <<>>]
  /\ rresp = [p \in Procs |-> <<>>]
  /\ writes = [p \in Procs |-> <<>>]
  /\ outcome = [p \in Procs |-> NoOutcome]
  /\ pre = [p \in Procs |-> NoValue]
  /\ message = <<>>
  /\ track_ids = <<>>
  /\ extracted = FALSE

\* ----------------------------------------------- starting an operation
Begin(p, o) ==
  /\ pc[p] = "idle"
  /\ pc' = [pc EXCEPT ![p] = "first"]
  /\ op' = [op EXCEPT ![p] = o]
  /\ obj' = [obj EXCEPT ![p] = Load(store[o.user])]
  /\ reqs' = [reqs EXCEPT ![p] = <<>>]
  /\ resps' = [resps EXCEPT ![p] = <<>>]
  /\ rresp' = [rresp EXCEPT ![p] = <<>>]
  /\ writes' = [writes EXCEPT ![p] = <<>>]
  /\ outcome' = [outcome EXCEPT ![p] = NoOutcome]
  /\ pre' = [pre EXCEPT ![p] = [users |-> store, playlists |-> playlists]]
  /\ UNCHANGED <<dbVars, textVars>>

\* make_authorized_api_call(user, endpoint) called on its own.
StartCall(p) ==
  \E u \in Users :
    Begin(p, [name |-> "call", user |-> u, endpoint |-> <<"endpoint">>,
              data |-> NoValue, params |-> NoValue])

\* -------------------------------------------- refresh_access_token(user)
\* A refresh that also takes over a refresh token the answer holds.
RefreshedUserRotating(o, auth_data) ==
  IF auth_data.refresh_token = <<>>
    THEN Assign(o, "access_token", auth_data.access_token)
    ELSE Assign(Assign(o, "access_token", auth_data.access_token),
                "refresh_token", auth_data.refresh_token[1])

\* The attributes refresh_access_token assigns from the parsed answer:
\* user.access_token = auth_data["access_token"], and nothing else.
RefreshedUser(o, auth_data) == Assign(o, "access_token", auth_data.access_token)

\* A commit that is missing.
FlushNothing(row, o) == row

\* A commit that gives way when the row has changed since it was loaded.
FlushIfUnchanged(row, o) ==
  IF row = o.loaded
    THEN [f \in DOMAIN row |-> IF o.cur[f] # o.loaded[f] THEN o.cur[f] ELSE row[f]]
    ELSE row

\* db.session.add(user); db.session.commit(): the unit of work writes the
\* attributes of the object that differ from what it loaded.
Flush(row, o) ==
  [f \in DOMAIN row |-> IF o.cur[f] # o.loaded[f] THEN o.cur[f] ELSE row[f]]

DirtyFields(o) == {f \in DOMAIN o.cur : o.cur[f] # o.loaded[f]}

\* requests.post(SPOTIFY_TOKEN_URL, ...), json.loads(auth_response.text) and
\* auth_data["access_token"]: either raises, or the object holds the new token.
RefreshPost(p) ==
  /\ pc[p] = "refresh"
  /\ \E r \in TokenResponses :
       LET parsed == json_loads(r.body) IN
         /\ rresp' = [rresp EXCEPT ![p] =
              Append(@, [request |-> [url |-> SPOTIFY_TOKEN_URL,
                                      grant_type |-> "refresh_token",
                                      refresh_token |-> obj[p].cur.refresh_token],
                         status |-> r.status, body |-> r.body])]
         /\ issued' = IF r.body.kind = "tokens" THEN issued + 1 ELSE issued
         /\ IF ~parsed.ok
              THEN /\ pc' = [pc EXCEPT ![p] = "done"]
                   /\ outcome' = [outcome EXCEPT ![p] = Raised(parsed.error)]
                   /\ obj' = obj
              ELSE IF "access_token" \notin Keys(parsed.value)
              THEN /\ pc' = [pc EXCEPT ![p] = "done"]
                   /\ outcome' = [outcome EXCEPT ![p] = Raised("KeyError")]
                   /\ obj' = obj
              ELSE /\ pc' = [pc EXCEPT ![p] = "commit"]
                   /\ outcome' = outcome
                   /\ obj' = [obj EXCEPT ![p] = RefreshedUser(@, parsed.value)]
  /\ UNCHANGED <<store, playlists, lastCommitter, op, reqs, resps, writes, pre, textVars>>

\* db.session.add(user); db.session.commit(); return user
RefreshCommit(p) ==
  /\ pc[p] = "commit"
  /\ store' = [store EXCEPT ![op[p].user] = Flush(@, obj[p])]
  /\ writes' = [writes EXCEPT ![p] =
       Append(@, <<[table |-> "users", id |-> op[p].user, fields |-> DirtyFields(obj[p])]>>)]
  /\ obj' = [obj EXCEPT ![p] = [cur |-> @.cur, loaded |-> @.cur]]
  /\ lastCommitter' = [lastCommitter EXCEPT ![op[p].user] = p]
  /\ pc' = [pc EXCEPT ![p] = "retry"]
  /\ UNCHANGED <<playlists, issued, op, reqs, resps, rresp, outcome, pre, textVars>>

\* ------------------------- make_authorized_api_call(user, endpoint, ...)
\* A test that takes every error status for an expired token.
IsExpiredAnyError(status) == status >= 400

\* request.status_code == 401
IsExpired(status) == status = 401

\* The headers of the first request used again.
RetryHeadersStale(o, first) == first.headers

\* headers=user.auth_header of the second requests.post
RetryHeaders(o, first) == auth_header(o)

\* The owner read only after the playlist is persisted.
FieldsReadFirstNoOwner == {"id", "external_urls", "href"}

\* The fields create_playlist reads from playlist_data before it persists.
FieldsReadFirst == {"id", "external_urls", "href", "owner"}

\* What follows the last response: return json.loads(request.text), and in
\* create_playlist the reading of the playlist's fields.
AfterResponse(p, r) ==
  LET parsed == json_loads(r.body) IN
    IF ~parsed.ok
      THEN /\ pc' = [pc EXCEPT ![p] = "done"]
           /\ outcome' = [outcome EXCEPT ![p] = Raised(parsed.error)]
    ELSE IF op[p].name # "create"
      THEN /\ pc' = [pc EXCEPT ![p] = "done"]
           /\ outcome' = [outcome EXCEPT ![p] = Returned(parsed.value)]
    ELSE IF FieldsReadFirst \subseteq Keys(parsed.value)
      THEN /\ pc' = [pc EXCEPT ![p] = "persist"]
           /\ outcome' = outcome
      ELSE /\ pc' = [pc EXCEPT ![p] = "done"]
           /\ outcome' = [outcome EXCEPT ![p] = Raised("KeyError")]

\* The first requests.post and the test of its status.
SendFirst(p) ==
  /\ pc[p] = "first"
  /\ \E r \in ApiResponses(op[p]) :
       /\ reqs' = [reqs EXCEPT ![p] =
            Append(@, [endpoint |-> op[p].endpoint, headers |-> auth_header(obj[p]),
                       data |-> op[p].data, params |-> op[p].params])]
       /\ resps' = [resps EXCEPT ![p] = Append(@, r)]
       /\ IF IsExpired(r.status)
            THEN /\ pc' = [pc EXCEPT ![p] = "refresh"]
                 /\ outcome' = outcome
            ELSE AfterResponse(p, r)
  /\ UNCHANGED <<dbVars, op, obj, rresp, writes, pre, textVars>>

\* The second requests.post, after the refresh.
SendRetry(p) ==
  /\ pc[p] = "retry"
  /\ \E r \in ApiResponses(op[p]) :
       /\ reqs' = [reqs EXCEPT ![p] =
            Append(@, [endpoint |-> op[p].endpoint,
                       headers |-> RetryHeaders(obj[p], reqs[p][1]),
                       data |-> op[p].data, params |-> op[p].params])]
       /\ resps' = [resps EXCEPT ![p] = Append(@, r)]
       /\ AfterResponse(p, r)
  /\ UNCHANGED <<dbVars, op, obj, rresp, writes, pre, textVars>>

\* The operation is over: its caller goes on.
Finish(p) ==
  /\ pc[p] = "done"
  /\ pc' = [pc EXCEPT ![p] = "idle"]
  /\ op' = [op EXCEPT ![p] = [name |-> "none"]]
  /\ obj' = [obj EXCEPT ![p] = NoValue]
  /\ reqs' = [reqs EXCEPT ![p] = <<>>]
  /\ resps' = [resps EXCEPT ![p] = <<>>]
  /\ rresp' = [rresp EXCEPT ![p] = <<>>]
  /\ writes' = [writes EXCEPT ![p] = <<>>]
  /\ outcome' = [outcome EXCEPT ![p] = NoOutcome]
  /\ pre' = [pre EXCEPT ![p] = NoValue]
  /\ UNCHANGED <<dbVars, textVars>>

\* ------------------------------------------- create_playlist(user, title)
PlaylistKeys == {"id", "external_urls", "href", "owner"}

StartCreate(p) ==
  \E u \in Users :
    Begin(p, [name |-> "create", user |-> u, title |-> "mix",
              endpoint |-> <<SPOTIFY_API_URL, "/users/", u, "/playlists">>,
              data |-> [name |-> "mix", description |-> "Spotify SMS Playlist",
                        public |-> FALSE, collaborative |-> TRUE],
              params |-> NoValue])

\* Playlist(...); db.session.add(new_playlist); user.active_playlist_id = id;
\* db.session.add(user); db.session.commit(); return new_playlist
CreatePersist(p) ==
  /\ pc[p] = "persist"
  /\ LET v == resps[p][Len(resps[p])].body
         new_playlist == [id |-> v.id, title |-> op[p].title, url |-> v.url,
                          endpoint |-> v.href,
                          owner_id |-> IF "owner" \in Keys(v) THEN v.owner ELSE "unset"]
         user == Assign(obj[p], "active_playlist_id", v.id)
     IN /\ playlists' = playlists \cup {new_playlist}
        /\ store' = [store EXCEPT ![op[p].user] = Flush(@, user)]
        /\ writes' = [writes EXCEPT ![p] =
             Append(@, <<[table |-> "playlists", id |-> v.id, fields |-> DOMAIN new_playlist],
                        [table |-> "users", id |-> op[p].user, fields |-> DirtyFields(user)]>>)]
        /\ obj' = [obj EXCEPT ![p] = [cur |-> user.cur, loaded |-> user.cur]]
        /\ outcome' = [outcome EXCEPT ![p] =
             IF (PlaylistKeys \ FieldsReadFirst) \subseteq Keys(v)
               THEN Returned(new_playlist)
               ELSE Raised("KeyError")]
  /\ pc' = [pc EXCEPT ![p] = "done"]
  /\ UNCHANGED <<issued, lastCommitter, op, reqs, resps, rresp, pre, textVars>>

\* ------------------------------ add_tracks_to_playlist(playlist, track_ids)
NonEmptySeqs(S, n) == UNION {[1..k -> S] : k \in 1..n}

\* A loop that puts the comma after every id, the last one too.
uris_string_trailing(ids) ==
  LET F[i \in 0..Len(ids)] ==
        IF i = 0 THEN <<>> ELSE F[i - 1] \o <<TRACK_URI_PREFIX, ids[i], ",">>
  IN F[Len(ids)]

\* 'spotify:track:' + track_ids[0], then ',' + 'spotify:track:' + track_id
\* for each of track_ids[1:]
uris_string(ids) ==
  LET F[i \in 1..Len(ids)] ==
        IF i = 1 THEN <<TRACK_URI_PREFIX, ids[1]>>
                 ELSE F[i - 1] \o <<",", TRACK_URI_PREFIX, ids[i]>>
  IN F[Len(ids)]

\* playlist.owner: the user whose id is the playlist's owner_id.
owner(playlist) == playlist.owner_id

StartAdd(p) ==
  \E playlist \in playlists, ids \in NonEmptySeqs(TrackIdSet, MaxTracks) :
    Begin(p, [name |-> "add", user |-> owner(playlist), playlist |-> playlist,
              track_ids |-> ids,
              endpoint |-> playlist.endpoint \o <<"/tracks">>,
              data |-> NoValue,
              params |-> [uris |-> uris_string(ids)]])

\* make_authorized_api_call for one and the same user, as two handlers of
\* requests of that user make it.
StartCallSame(p) ==
  Begin(p, [name |-> "call", user |-> "u1", endpoint |-> <<"endpoint">>,
            data |-> NoValue, params |-> NoValue])

\* ------------------------------------ get_track_ids_from_message(message)
\* The pieces of a message: the literal the pattern starts with, and single
\* characters.
Pieces == {TRACK_URL_PREFIX, "/", "?", " ", "\n", "x"}

\* [^? ]
InClass(c) == c # "?" /\ c # " "

\* The end of the match that starts at piece i (a TRACK_URL_PREFIX): \/+ takes
\* the slashes and [^? ]* every piece up to the next "?" or " ".
MatchEnd(msg, i) ==
  LET E[j \in i..Len(msg)] ==
        IF j < Len(msg) /\ InClass(msg[j + 1]) THEN E[j + 1] ELSE j
  IN E[i]

\* re.findall: the matches from left to right, none overlapping another.
findall(msg) ==
  LET F[i \in 1..(Len(msg) + 1)] ==
        IF i > Len(msg) THEN <<>>
        ELSE IF msg[i] = TRACK_URL_PREFIX
          THEN <<SubSeq(msg, i, MatchEnd(msg, i))>> \o F[MatchEnd(msg, i) + 1]
          ELSE F[i + 1]
  IN F[1]

\* url.replace('https://open.spotify.com/track/', ''): every occurrence goes.
replace_prefix(url) == SelectSeq(url, LAMBDA c : c # TRACK_URL_PREFIX)

get_track_ids_from_message(msg) ==
  LET urls == findall(msg)
  IN [k \in 1..Len(urls) |-> replace_prefix(urls[k])]

\* A message arrives piece by piece.
Type ==
  /\ ~extracted
  /\ Len(message) < MaxMsgLen
  /\ \E c \in Pieces : message' = Append(message, c)
  /\ UNCHANGED <<dbVars, procVars, track_ids, extracted>>

Extract ==
  /\ ~extracted
  /\ track_ids' = get_track_ids_from_message(message)
  /\ extracted' = TRUE
  /\ UNCHANGED <<dbVars, procVars, message>>

NextMessage ==
  /\ extracted
  /\ message' = <<>>
  /\ track_ids' = <<>>
  /\ extracted' = FALSE
  /\ UNCHANGED <<dbVars, procVars>>

\* ------------------------------------------------------ specifications
\* One request handler at a time.
Next ==
  \/ StartCall(1)
  \/ StartCreate(1)
  \/ StartAdd(1)
  \/ SendFirst(1)
  \/ RefreshPost(1)
  \/ RefreshCommit(1)
  \/ SendRetry(1)
  \/ CreatePersist(1)
  \/ Finish(1)

Spec == Init /\ [][Next]_vars

\* Two request handlers calling the API at the same time.
NextConc ==
  \E p \in Procs :
    \/ StartCallSame(p)
    \/ SendFirst(p)
    \/ RefreshPost(p)
    \/ RefreshCommit(p)
    \/ SendRetry(p)
    \/ Finish(p)

SpecConc == Init /\ [][NextConc]_vars

\* The track extractor on every message within the bounds.
NextText == Type \/ Extract \/ NextMessage

SpecText == Init /\ [][NextText]_vars

\* =============================================================== claims
Bearer(tok) == [Authorization |-> <<"Bearer ", tok>>]
User(p) == op[p].user
\* An answer of the token endpoint that is a failure: a status other than
\* 200, or a body without an access token.
TokenAnswerFailed(r) == r.status # 200 \/ r.body.kind # "tokens"

\* C1: a call whose first request is answered 401 and whose next request is
\* answered 200 with a JSON body refreshes exactly once, issues exactly two
\* requests, sends the second one with the access token that refresh
\* obtained and not the old one, the request being otherwise the same, and
\* returns the body of the 200 answer.
C1_Case(p) ==
  /\ pc[p] = "done" /\ op[p].name = "call"
  /\ Len(resps[p]) = 2
  /\ resps[p][1].status = 401
  /\ resps[p][2].status = 200
  /\ json_loads(resps[p][2].body).ok

C1_RefreshOnceThenSucceed ==
  \A p \in Procs :
    C1_Case(p) =>
      /\ Len(rresp[p]) = 1
      /\ Len(reqs[p]) = 2
      /\ reqs[p][2].headers = Bearer(rresp[p][1].body.access_token)
      /\ reqs[p][2].headers # reqs[p][1].headers
      /\ reqs[p][2] = [reqs[p][1] EXCEPT !.headers = reqs[p][2].headers]
      /\ outcome[p] = Returned(resps[p][2].body)

C1_Witness == C1_Case(1) /\ resps[1][2].body # resps[1][1].body

\* C2: if the request reissued after a refresh is answered 401 too, or if
\* the refresh fails, the call ends in a failure and returns no body.
C2_UnauthorizedRetryFails ==
  \A p \in Procs :
    (/\ pc[p] = "done" /\ op[p].name = "call"
     /\ \/ Len(resps[p]) = 2 /\ resps[p][2].status = 401
        \/ Len(rresp[p]) = 1 /\ TokenAnswerFailed(rresp[p][1]))
    => outcome[p].kind = "raised"

\* C3: one call issues at most two requests and at most one refresh and
\* always can go on until it is over; the refresh and the second request
\* come only after a first answer of 401; after any other first answer the
\* call is over with one request, no refresh and the stored tokens as they
\* were.
CallStep(p) ==
  SendFirst(p) \/ RefreshPost(p) \/ RefreshCommit(p) \/ SendRetry(p) \/ CreatePersist(p)

C3_AtMostOneRetry ==
  \A p \in Procs :
    /\ Len(reqs[p]) <= 2 /\ Len(rresp[p]) <= 1 /\ Len(writes[p]) <= 2
    /\ Len(reqs[p]) + Len(rresp[p]) + Len(writes[p]) <= 5
    /\ pc[p] \notin {"idle", "done"} => ENABLED CallStep(p)
    /\ pc[p] \notin {"idle", "first"} => Len(resps[p]) >= 1
    /\ (Len(rresp[p]) >= 1 \/ Len(reqs[p]) = 2) => resps[p][1].status = 401
    /\ Len(reqs[p]) = 2 => Len(rresp[p]) = 1
    /\ (pc[p] \notin {"idle", "first"} /\ resps[p][1].status # 401) =>
         /\ Len(reqs[p]) = 1 /\ rresp[p] = <<>>
         /\ pc[p] \in {"persist", "done"}
         /\ store[User(p)].access_token = pre[p].users[User(p)].access_token
         /\ store[User(p)].refresh_token = pre[p].users[User(p)].refresh_token

C3_Witness ==
  /\ pc[1] = "done" /\ Len(reqs[1]) = 2 /\ resps[1][2].status = 401

\* C4: when the token endpoint answers a refresh with a failure,
\* refresh_access_token fails, the stored user is as before and nothing is
\* written.
C4_FailedRefreshChangesNothing ==
  \A p \in Procs :
    (Len(rresp[p]) = 1 /\ TokenAnswerFailed(rresp[p][1])) =>
      /\ pc[p] = "done" /\ outcome[p].kind = "raised"
      /\ store = pre[p].users
      /\ writes[p] = <<>>

\* C5: when the token endpoint answers a refresh with success, the stored
\* access_token of the user is the token of the answer, that user is
\* written once, and nothing else of the users table changes.
C5_Case(p) ==
  /\ pc[p] = "retry"
  /\ rresp[p][1].status = 200 /\ rresp[p][1].body.kind = "tokens"

C5_RefreshWritesTokenOnce ==
  \A p \in Procs :
    C5_Case(p) =>
      /\ store = [pre[p].users EXCEPT
                    ![User(p)].access_token = rresp[p][1].body.access_token]
      /\ store[User(p)].access_token # pre[p].users[User(p)].access_token
      /\ playlists = pre[p].playlists
      /\ writes[p] = << <<[table |-> "users", id |-> User(p),
                           fields |-> {"access_token"}]>> >>

C5_Witness == C5_Case(1)

\* C6 as claimed: after a successful refresh whose answer holds a new
\* refresh token, the stored refresh_token is that new one.
C6_RotatedTokenStored ==
  \A p \in Procs :
    (pc[p] = "retry" /\ rresp[p][1].body.refresh_token # <<>>) =>
      store[User(p)].refresh_token = rresp[p][1].body.refresh_token[1]

\* C6 as amended: after a successful refresh the stored refresh_token is the
\* original one, also when the answer holds a new refresh token.
C6_RefreshTokenKept ==
  \A p \in Procs :
    pc[p] = "retry" =>
      /\ store[User(p)].refresh_token = pre[p].users[User(p)].refresh_token
      /\ obj[p].cur.refresh_token = pre[p].users[User(p)].refresh_token

C6_Witness ==
  /\ pc[1] = "retry" /\ rresp[1][1].body.refresh_token # <<>>
  /\ store[User(1)].refresh_token # rresp[1][1].body.refresh_token[1]

\* C7 as claimed: when the provider call of create_playlist fails, on the
\* first request, on the refresh or on the retried request, create_playlist
\* fails and nothing is persisted: no playlist and no user is written.
ApiAnswerFailed(r) == r.status >= 400 \/ ~json_loads(r.body).ok

ProviderCallFailed(p) ==
  \/ Len(resps[p]) = 1 /\ resps[p][1].status # 401 /\ ApiAnswerFailed(resps[p][1])
  \/ Len(rresp[p]) = 1 /\ TokenAnswerFailed(rresp[p][1])
  \/ Len(resps[p]) = 2 /\ ApiAnswerFailed(resps[p][2])

C7_Case(p) == pc[p] = "done" /\ op[p].name = "create" /\ outcome[p].kind = "raised"

C8_Case(p) == op[p].name = "add" /\ Len(reqs[p]) >= 1

C8_AddTracksRequest ==
  \A p \in Procs :
    C8_Case(p) =>
      LET ids == op[p].track_ids
          playlist == op[p].playlist
      IN \A i \in 1..Len(reqs[p]) :
           LET s == reqs[p][i].params.uris IN
             /\ reqs[p][i].endpoint = playlist.endpoint \o <<"/tracks">>
             /\ reqs[p][i].headers =
                  Bearer(IF i = 1
                           THEN pre[p].users[playlist.owner_id].access_token
                           ELSE store[playlist.owner_id].access_token)
             /\ \A u \in Users \ {playlist.owner_id} :
                  /\ reqs[p][i].headers # Bearer(store[u].access_token)
                  /\ reqs[p][i].headers # Bearer(pre[p].users[u].access_token)
             /\ DOMAIN reqs[p][i].params = {"uris"}
             /\ Len(s) = 3 * Len(ids) - 1
             /\ s[1] # "," /\ s[Len(s)] # ","
             /\ \A k \in 1..Len(ids) :
                  /\ s[3 * k - 2] = "spotify:track:"
                  /\ s[3 * k - 1] = ids[k]
                  /\ k < Len(ids) => s[3 * k] = ","

C8_Witness ==
  /\ C8_Case(1) /\ Len(reqs[1]) = 2 /\ op[1].track_ids = <<"a", "b", "a">>
  /\ op[1].playlist.owner_id = "u2"
  /\ reqs[1][2].params.uris =
       <<"spotify:track:", "a", ",", "spotify:track:", "b", ",", "spotify:track:", "a">>

\* C9: every id get_track_ids_from_message returns is not empty and holds
\* no "?" and no whitespace (space, tab, newline), and a message without a
\* track URL (the prefix followed by at least one character of an id) gives
\* the empty sequence.
Whitespace == {" ", "\n", "\t"}

WellFormedAt(msg, i) ==
  /\ msg[i] = TRACK_URL_PREFIX
  /\ i < Len(msg)
  /\ msg[i + 1] \notin Whitespace \cup {"?"}

C9_IdsTruncatedAndNonEmpty ==
  extracted =>
    /\ \A k \in 1..Len(track_ids) :
         /\ track_ids[k] # <<>>
         /\ \A j \in 1..Len(track_ids[k]) : track_ids[k][j] \notin Whitespace \cup {"?"}
    /\ (\A i \in 1..Len(message) : ~WellFormedAt(message, i)) => track_ids = <<>>

\* C10: two calls for the same user that both get 401 may both refresh, each
\* at most once; when both are over the stored access_token is the token of
\* the refresh that committed last and the stored refresh_token is the
\* original one.
C10_Case(p, q) ==
  /\ p # q /\ pc[p] = "done" /\ pc[q] = "done"
  /\ User(p) = User(q)
  /\ Len(writes[p]) = 1 /\ Len(writes[q]) = 1

C10_LastWriterWins ==
  /\ \A p \in Procs : Len(rresp[p]) <= 1 /\ Len(writes[p]) <= 1
  /\ \A p, q \in Procs :
       C10_Case(p, q) =>
         LET u == User(p) IN
           /\ resps[p][1].status = 401 /\ resps[q][1].status = 401
           /\ lastCommitter[u] \in {p, q}
           /\ store[u].access_token = rresp[lastCommitter[u]][1].body.access_token
           /\ store[u].refresh_token = RefreshTok(UserIndex(u))

\* Both refreshes ran at the same time: the one that asked for its token
\* first committed last.
C10_Witness ==
  /\ C10_Case(1, 2)
  /\ lastCommitter[User(1)] = 1
  /\ rresp[1][1].body.access_token[2] < rresp[2][1].body.access_token[2]
  /\ store[User(1)].access_token = rresp[1][1].body.access_token

====
